---- MODULE Spec2Model ----
\* A model of pkg/kube/client.go: the istioctl Kubernetes client helper.
\* Strings are sequences of tokens; fmt.Sprintf / fmt.Errorf are concatenation.
\* A nil error is the empty sequence (every error the code builds has a
\* non-empty message).
EXTENDS Integers, Sequences, FiniteSets, TLC

\* ---------------------------------------------------------------- bounds
MaxPods == 3          \* most pods a list query returns
MaxSelectorLen == 6   \* longest caller label selector a direct call still merges into
MaxPayloadLen == 5    \* longest /version payload of the parser specification

\* ---------------------------------------------------------------- strings
Nil == << >>

RECURSIVE Split(_, _)
\* strings.Split(s, sep) for a one-token separator: always at least one segment.
Split(s, sep) ==
  IF s = << >> THEN << << >> >>
  ELSE LET rest == Split(Tail(s), sep) IN
       IF Head(s) = sep THEN << << >> >> \o rest
       ELSE << <<Head(s)>> \o Head(rest) >> \o Tail(rest)

RECURSIVE Join(_, _)
\* strings.Join(parts, sep)
Join(parts, sep) ==
  IF parts = << >> THEN << >>
  ELSE IF Len(parts) = 1 THEN parts[1]
  ELSE parts[1] \o <<sep>> \o Join(Tail(parts), sep)

\* ---------------------------------------------------------------- client
IstioRev == <<"istio.io/rev">>
Revisions == { << >>, <<"canary">> }
Namespace == <<"istio-system">>

VARIABLES
  revision,   \* client.revision
  params,     \* the selector map a caller owns and passes to GetIstioPods
  pc,         \* "idle", a position inside an operation, or "done"
  op,         \* the operation running or just returned
  paramsIn,   \* the selector map as it was when the list call was made
  query,      \* the query parameters sent with the list request
  resp,       \* what the cluster answered to the operation's first request
  pods,       \* the resolved pods being iterated
  idx,        \* loop position in pods
  attempted,  \* names of the pods a proxy request was issued to, in order
  outcomes,   \* what each proxy request returned, in order
  ret,        \* the returned value: [nil |-> BOOLEAN, val |-> ...]
  err,        \* the returned plain error (Nil when none)
  errs,       \* the multierror being accumulated / returned
  fw,         \* the port forwarder: "none", "created", "started", "closed"
  body,       \* the HTTP response body: "none", "open", "closed"
  stdout,     \* PodExec's stdout return value
  stderr      \* PodExec's stderr return value

vars == <<revision, params, pc, op, paramsIn, query, resp, pods, idx, attempted,
          outcomes, ret, err, errs, fw, body, stdout, stderr>>

NilRet == [nil |-> TRUE, val |-> << >>]
NoResp == [kind |-> "none"]

\* ---------------------------------------------------------------- GetIstioPods
EmptyParams == [k \in {} |-> << >>]
CallerParams ==
  { EmptyParams,
    [k \in {"labelSelector"} |-> << >>],
    [k \in {"labelSelector", "fieldSelector"} |->
        IF k = "labelSelector" THEN <<"app=x">> ELSE <<"status.phase=Running">>] }

\* The revision merge of GetIstioPods: writes into the map it was given.
MergeRevision(rev, p) ==
  IF rev # << >>
  THEN [k \in DOMAIN p \cup {"labelSelector"} |->
          IF k = "labelSelector"
          THEN IF "labelSelector" \in DOMAIN p
               THEN p[k] \o <<",">> \o IstioRev \o <<"=">> \o rev
               ELSE IstioRev \o <<"=">> \o rev
          ELSE p[k]]
  ELSE p

PodNames == <<"istiod-a", "istiod-b", "istiod-c", "istiod-d", "istiod-e">>
PodLabels == <<"pilot", "galley", "citadel", "telemetry", "policy">>
Pod(n) == [Name |-> PodNames[n], istio |-> PodLabels[n]]

\* Every list the cluster can answer with: distinct pods in any order.
PodLists ==
  UNION { { [i \in 1..n |-> Pod(f[i])] :
              f \in { g \in [1..n -> 1..MaxPods] :
                        \A i, j \in 1..n : i # j => g[i] # g[j] } } :
          n \in 0..MaxPods }

TransportErrors == { <<"connection refused">> }

ListResponses ==
  { [kind |-> "error", cause |-> e, items |-> << >>] : e \in TransportErrors }
  \cup { [kind |-> "unparsable", cause |-> Nil, items |-> << >>] }
  \cup { [kind |-> "list", cause |-> Nil, items |-> l] : l \in PodLists }

\* Variant: zero matching pods are reported as an error by the resolver itself.
GetIstioPodsReturn_NotFound(r) ==
  IF r.kind = "error"
  THEN [items |-> << >>, err |-> <<"unable to retrieve Pods: ">> \o r.cause]
  ELSE IF r.kind = "unparsable"
  THEN [items |-> << >>, err |-> <<"unable to parse PodList: ", "<nil>">>]
  ELSE IF r.items = << >>
  THEN [items |-> << >>, err |-> <<"no pods found">>]
  ELSE [items |-> r.items, err |-> Nil]

\* What GetIstioPods returns for a response of the list request.
GetIstioPodsReturn(r) ==
  IF r.kind = "error"
  THEN [items |-> << >>, err |-> <<"unable to retrieve Pods: ">> \o r.cause]
  ELSE IF r.kind = "unparsable"
  THEN [items |-> << >>, err |-> <<"unable to parse PodList: ", "<nil>">>]
  ELSE [items |-> r.items, err |-> Nil]

LabelSelectorLen(p) ==
  IF "labelSelector" \in DOMAIN p THEN Len(p["labelSelector"]) ELSE 0

Init ==
  /\ revision \in Revisions
  /\ params \in CallerParams
  /\ pc = "idle"
  /\ op = "none"
  /\ paramsIn = EmptyParams
  /\ query = EmptyParams
  /\ resp = NoResp
  /\ pods = << >>
  /\ idx = 0
  /\ attempted = << >>
  /\ outcomes = << >>
  /\ ret = NilRet
  /\ err = Nil
  /\ errs = << >>
  /\ fw = "none"
  /\ body = "none"
  /\ stdout = << >>
  /\ stderr = << >>

\* A caller invokes GetIstioPods with the map it owns.
GetIstioPods ==
  /\ pc = "idle"
  /\ LabelSelectorLen(params) < MaxSelectorLen
  /\ \E r \in ListResponses :
       LET out == GetIstioPodsReturn(r) IN
       /\ paramsIn' = params
       /\ params' = MergeRevision(revision, params)
       /\ query' = params'
       /\ resp' = r
       /\ ret' = [nil |-> out.err # Nil, val |-> out.items]
       /\ err' = out.err
  /\ op' = "GetIstioPods"
  /\ pc' = "done"
  /\ UNCHANGED <<revision, pods, idx, attempted, outcomes, errs, fw, body, stdout, stderr>>

\* The operation has returned; the caller goes on.
Return ==
  /\ pc = "done"
  /\ pc' = "idle"
  /\ op' = "none"
  /\ paramsIn' = EmptyParams
  /\ query' = EmptyParams
  /\ resp' = NoResp
  /\ pods' = << >>
  /\ idx' = 0
  /\ attempted' = << >>
  /\ outcomes' = << >>
  /\ ret' = NilRet
  /\ err' = Nil
  /\ errs' = << >>
  /\ fw' = "none"
  /\ body' = "none"
  /\ stdout' = << >>
  /\ stderr' = << >>
  /\ UNCHANGED <<revision, params>>

\* ---------------------------------------------------------------- proxy requests
Payloads ==
  { << >>,
    <<"1", ".", "7">>,
    <<"1", ".", "7", "-", "a", "-", "g", "-", "C">> }

\* What proxyGet(...).DoRaw(ctx) returns for one pod.
ProxyOutcomes ==
  { [err |-> e, res |-> << >>] : e \in TransportErrors }
  \cup { [err |-> Nil, res |-> p] : p \in Payloads }

EmptyMap == [k \in {} |-> << >>]
Put(m, k, v) == [x \in DOMAIN m \cup {k} |-> IF x = k THEN v ELSE m[x]]

\* ---------------------------------------------------------------- AllDiscoveryDo
AllDiscoveryDoParams ==
  [k \in {"labelSelector", "fieldSelector"} |->
      IF k = "labelSelector" THEN <<"app=istiod">> ELSE <<"status.phase=Running">>]

NoPilots(pilots) == Len(pilots) = 0

\* Variant: a failing pilot is skipped and the loop goes on.
AllDiscoveryDoBody_CollectAll(result, pilot, out) ==
  IF out.err # Nil
  THEN [stop |-> FALSE, ret |-> [nil |-> FALSE, val |-> result], err |-> out.err]
  ELSE [stop |-> FALSE,
        ret  |-> [nil |-> FALSE,
                  val |-> IF Len(out.res) > 0
                          THEN Put(result, pilot.Name, out.res)
                          ELSE result],
        err  |-> Nil]

\* One pass through the loop body for pilot, whose request returned out.
AllDiscoveryDoBody(result, pilot, out) ==
  IF out.err # Nil
  THEN [stop |-> TRUE, ret |-> NilRet, err |-> out.err]
  ELSE [stop |-> FALSE,
        ret  |-> [nil |-> FALSE,
                  val |-> IF Len(out.res) > 0
                          THEN Put(result, pilot.Name, out.res)
                          ELSE result],
        err  |-> Nil]

AllDiscoveryDo ==
  /\ pc = "idle"
  /\ op' = "AllDiscoveryDo"
  /\ paramsIn' = AllDiscoveryDoParams
  /\ query' = MergeRevision(revision, AllDiscoveryDoParams)
  /\ \E r \in ListResponses :
       LET out == GetIstioPodsReturn(r) IN
       /\ resp' = r
       /\ IF out.err # Nil
          THEN /\ ret' = NilRet /\ err' = out.err /\ pc' = "done"
               /\ UNCHANGED <<pods, idx>>
          ELSE IF NoPilots(out.items)
          THEN /\ ret' = NilRet
               /\ err' = <<"unable to find any Pilot instances">>
               /\ pc' = "done"
               /\ UNCHANGED <<pods, idx>>
          ELSE /\ ret' = [nil |-> FALSE, val |-> EmptyMap]
               /\ err' = Nil
               /\ pods' = out.items
               /\ idx' = 1
               /\ pc' = "AllDiscoveryDo_loop"
  /\ UNCHANGED <<revision, params, attempted, outcomes, errs, fw, body, stdout, stderr>>

AllDiscoveryDoAttempt(out) ==
  /\ pc = "AllDiscoveryDo_loop"
  /\ idx <= Len(pods)
  /\ LET b == AllDiscoveryDoBody(ret.val, pods[idx], out) IN
     /\ attempted' = Append(attempted, pods[idx].Name)
     /\ outcomes' = Append(outcomes, out)
     /\ ret' = b.ret
     /\ err' = b.err
     /\ IF b.stop
        THEN pc' = "done" /\ idx' = idx
        ELSE pc' = pc /\ idx' = idx + 1
  /\ UNCHANGED <<revision, params, op, paramsIn, query, resp, pods, errs, fw, body,
                 stdout, stderr>>

AllDiscoveryDoReturn ==
  /\ pc = "AllDiscoveryDo_loop"
  /\ idx > Len(pods)
  /\ pc' = "done"
  /\ UNCHANGED <<revision, params, op, paramsIn, query, resp, pods, idx, attempted,
                 outcomes, ret, err, errs, fw, body, stdout, stderr>>

\* ---------------------------------------------------------------- GetIstioVersions
GetIstioVersionsParams ==
  [k \in {"labelSelector", "fieldSelector"} |->
      IF k = "labelSelector"
      THEN <<"istio,istio!=ingressgateway,istio!=egressgateway,istio!=ilbgateway">>
      ELSE <<"status.phase=Running">>]

\* Variant: the empty-list check is missing.
NoIstioPods_Unchecked(ps) == FALSE

NoIstioPods(ps) == Len(ps) = 0

\* Variant: the fields are taken from the left instead of from the right.
ParseVersion_FromLeft(result) ==
  LET versionParts == Split(result, "-")
      nParts == Len(versionParts)
  IN IF nParts >= 3
     THEN [Version     |-> versionParts[1],
           GitTag      |-> versionParts[1],
           GitRevision |-> versionParts[2],
           BuildStatus |-> Join(SubSeq(versionParts, 3, nParts), "-")]
     ELSE [Version |-> result, GitTag |-> << >>, GitRevision |-> << >>,
           BuildStatus |-> << >>]

\* The version parsing of GetIstioVersions, for a non-empty payload.
ParseVersion(result) ==
  LET versionParts == Split(result, "-")
      nParts == Len(versionParts)
  IN IF nParts >= 3
     THEN [Version     |-> Join(SubSeq(versionParts, 1, nParts - 2), "-"),
           GitTag      |-> Join(SubSeq(versionParts, 1, nParts - 2), "-"),
           GitRevision |-> versionParts[nParts - 1],
           BuildStatus |-> versionParts[nParts]]
     ELSE [Version |-> result, GitTag |-> << >>, GitRevision |-> << >>,
           BuildStatus |-> << >>]

\* Variant: the payload is recorded without the emptiness check.
GetIstioVersionsBody_KeepEmpty(res, es, pod, out) ==
  IF out.err # Nil
  THEN [res  |-> res,
        errs |-> Append(es, <<"error port-forewarding into ", pod.Name, " : ">> \o out.err)]
  ELSE [res  |-> Append(res, [Component |-> pod.istio, Info |-> ParseVersion(out.res)]),
        errs |-> es]

\* One pass through the loop body for pod, whose request returned out.
GetIstioVersionsBody(res, es, pod, out) ==
  IF out.err # Nil
  THEN [res  |-> res,
        errs |-> Append(es, <<"error port-forewarding into ", pod.Name, " : ">> \o out.err)]
  ELSE IF Len(out.res) > 0
  THEN [res  |-> Append(res, [Component |-> pod.istio, Info |-> ParseVersion(out.res)]),
        errs |-> es]
  ELSE [res |-> res, errs |-> es]

GetIstioVersions ==
  /\ pc = "idle"
  /\ op' = "GetIstioVersions"
  /\ paramsIn' = GetIstioVersionsParams
  /\ query' = MergeRevision(revision, GetIstioVersionsParams)
  /\ \E r \in ListResponses :
       LET out == GetIstioPodsReturn(r) IN
       /\ resp' = r
       /\ IF out.err # Nil
          THEN /\ ret' = NilRet /\ err' = out.err /\ pc' = "done"
               /\ UNCHANGED <<pods, idx>>
          ELSE IF NoIstioPods(out.items)
          THEN /\ ret' = NilRet
               /\ err' = <<"no running Istio pods in ", "\"">> \o Namespace \o <<"\"">>
               /\ pc' = "done"
               /\ UNCHANGED <<pods, idx>>
          ELSE /\ ret' = [nil |-> FALSE, val |-> << >>]
               /\ err' = Nil
               /\ pods' = out.items
               /\ idx' = 1
               /\ pc' = "GetIstioVersions_loop"
  /\ UNCHANGED <<revision, params, attempted, outcomes, errs, fw, body, stdout, stderr>>

GetIstioVersionsAttempt(out) ==
  /\ pc = "GetIstioVersions_loop"
  /\ idx <= Len(pods)
  /\ LET b == GetIstioVersionsBody(ret.val, errs, pods[idx], out) IN
     /\ attempted' = Append(attempted, pods[idx].Name)
     /\ outcomes' = Append(outcomes, out)
     /\ ret' = [nil |-> FALSE, val |-> b.res]
     /\ errs' = b.errs
     /\ idx' = idx + 1
  /\ UNCHANGED <<revision, params, pc, op, paramsIn, query, resp, pods, err, fw, body,
                 stdout, stderr>>

\* Variant: the recorded errors are returned only when nothing was collected.
GetIstioVersionsResult_FailOnlyWhenEmpty(res, es) ==
  [ret |-> [nil |-> FALSE, val |-> res], errs |-> IF res = << >> THEN es ELSE << >>]

\* return &res, errs
GetIstioVersionsResult(res, es) ==
  [ret |-> [nil |-> FALSE, val |-> res], errs |-> es]

GetIstioVersionsReturn ==
  /\ pc = "GetIstioVersions_loop"
  /\ idx > Len(pods)
  /\ ret' = GetIstioVersionsResult(ret.val, errs).ret
  /\ errs' = GetIstioVersionsResult(ret.val, errs).errs
  /\ pc' = "done"
  /\ UNCHANGED <<revision, params, op, paramsIn, query, resp, pods, idx, attempted,
                 outcomes, err, fw, body, stdout, stderr>>

\* ---------------------------------------------------------------- EnvoyDo
formatError(e) == <<"failure running port forward process: ">> \o e

ForwardErrors == { <<"unable to listen on any of the requested ports">> }
RequestErrors == { <<"context canceled">> }

\* defer fw.Close(): runs on every return after the statement that registers it.
DeferredClose(f) == "closed"

\* fw, err := c.NewPortForwarder(...)
EnvoyDo ==
  /\ pc = "idle"
  /\ op' = "EnvoyDo"
  /\ \/ /\ fw' = "created"
        /\ pc' = "EnvoyDo_start"
        /\ UNCHANGED <<ret, err>>
     \/ \E e \in ForwardErrors :
          /\ ret' = NilRet /\ err' = e /\ pc' = "done"
          /\ UNCHANGED fw
  /\ UNCHANGED <<revision, params, paramsIn, query, resp, pods, idx, attempted, outcomes,
                 errs, body, stdout, stderr>>

\* if err = fw.Start(); err != nil { return nil, formatError(err) }; defer fw.Close()
EnvoyDoStart ==
  /\ pc = "EnvoyDo_start"
  /\ \/ /\ fw' = "started"
        /\ pc' = "EnvoyDo_request"
        /\ UNCHANGED <<ret, err>>
     \/ \E e \in ForwardErrors :
          /\ ret' = NilRet /\ err' = formatError(e) /\ pc' = "done"
          /\ UNCHANGED fw
  /\ UNCHANGED <<revision, params, op, paramsIn, query, resp, pods, idx, attempted,
                 outcomes, errs, body, stdout, stderr>>

\* req, err := http.NewRequest(method, url, nil)
EnvoyDoNewRequest ==
  /\ pc = "EnvoyDo_request"
  /\ \/ /\ pc' = "EnvoyDo_do"
        /\ UNCHANGED <<ret, err, fw>>
     \/ /\ ret' = NilRet
        /\ err' = formatError(<<"net/http: invalid method">>)
        /\ fw' = DeferredClose(fw)
        /\ pc' = "done"
  /\ UNCHANGED <<revision, params, op, paramsIn, query, resp, pods, idx, attempted,
                 outcomes, errs, body, stdout, stderr>>

\* resp, err := http.DefaultClient.Do(req.WithContext(ctx)); defer closeQuietly(resp.Body)
EnvoyDoRequest ==
  /\ pc = "EnvoyDo_do"
  /\ \/ /\ body' = "open"
        /\ pc' = "EnvoyDo_read"
        /\ UNCHANGED <<ret, err, fw>>
     \/ \E e \in RequestErrors :
          /\ ret' = NilRet
          /\ err' = formatError(e)
          /\ fw' = DeferredClose(fw)
          /\ pc' = "done"
          /\ UNCHANGED body
  /\ UNCHANGED <<revision, params, op, paramsIn, query, resp, pods, idx, attempted,
                 outcomes, errs, stdout, stderr>>

\* out, err := ioutil.ReadAll(resp.Body), then the return and both deferred closes
EnvoyDoRead ==
  /\ pc = "EnvoyDo_read"
  /\ \/ \E p \in Payloads : ret' = [nil |-> FALSE, val |-> p] /\ err' = Nil
     \/ \E e \in RequestErrors : ret' = NilRet /\ err' = formatError(e)
  /\ body' = "closed"
  /\ fw' = DeferredClose(fw)
  /\ pc' = "done"
  /\ UNCHANGED <<revision, params, op, paramsIn, query, resp, pods, idx, attempted,
                 outcomes, errs, stdout, stderr>>

\* ---------------------------------------------------------------- PodExec
ExecTarget == [podName |-> "istiod-a", podNamespace |-> "istio-system", container |-> "discovery"]

ExecPrefix ==
  <<"error exec'ing into ", ExecTarget.podName, "/", ExecTarget.podNamespace, " ",
    ExecTarget.container, " container: ">>

StdoutTexts == { << >>, <<"ok">> }
StderrTexts == { << >>, <<"sh: ", "not found">> }
StreamErrors == { <<"command terminated with exit code 1">> }

\* What the transport does to one PodExec: where it fails (if at all) and what
\* the remote command wrote before that.
ExecOutcomes ==
  { [stage |-> "roundTripper", err |-> <<"bad config">>, out |-> << >>, errOut |-> << >>],
    [stage |-> "executor", err |-> <<"bad url">>, out |-> << >>, errOut |-> << >>] }
  \cup { [stage |-> "stream", err |-> e, out |-> o, errOut |-> x] :
           e \in StreamErrors \cup {Nil}, o \in StdoutTexts, x \in StderrTexts }

\* Variant: the final wrap formats the stream's error, not the one carrying stderr.
PodExecDeferred_Overwrite(e, se) ==
  IF e # Nil THEN ExecPrefix \o e ELSE e

\* The deferred function of PodExec, run on the named results at return.
PodExecDeferred(e, se) ==
  IF e # Nil
  THEN LET e1 == IF Len(se) > 0 THEN ExecPrefix \o e \o <<"\n">> \o se ELSE e
       IN ExecPrefix \o e1
  ELSE e

PodExec ==
  /\ pc = "idle"
  /\ op' = "PodExec"
  /\ \E x \in ExecOutcomes :
       /\ resp' = [kind |-> "exec", exec |-> x]
       /\ IF x.stage # "stream"
          THEN /\ stdout' = << >>
               /\ stderr' = << >>
               /\ err' = PodExecDeferred(x.err, << >>)
          ELSE /\ stdout' = x.out
               /\ stderr' = x.errOut
               /\ err' = PodExecDeferred(x.err, x.errOut)
  /\ pc' = "done"
  /\ UNCHANGED <<revision, params, paramsIn, query, pods, idx, attempted, outcomes, ret,
                 errs, fw, body>>

Next ==
  \/ GetIstioPods
  \/ AllDiscoveryDo
  \/ \E out \in ProxyOutcomes : AllDiscoveryDoAttempt(out)
  \/ AllDiscoveryDoReturn
  \/ GetIstioVersions
  \/ \E out \in ProxyOutcomes : GetIstioVersionsAttempt(out)
  \/ GetIstioVersionsReturn
  \/ EnvoyDo
  \/ EnvoyDoStart
  \/ EnvoyDoNewRequest
  \/ EnvoyDoRequest
  \/ EnvoyDoRead
  \/ PodExec
  \/ Return

Spec == Init /\ [][Next]_vars

\* ---------------------------------------------------------------- version parser alone
VersionAlphabet == { "1", "a", "-" }
VersionStrings == UNION { [1..n -> VersionAlphabet] : n \in 0..MaxPayloadLen }

\* GetIstioVersions has resolved one pod and is about to request its version.
InitParse ==
  /\ revision = << >>
  /\ params = EmptyParams
  /\ pc = "GetIstioVersions_loop"
  /\ op = "GetIstioVersions"
  /\ paramsIn = GetIstioVersionsParams
  /\ query = GetIstioVersionsParams
  /\ resp = [kind |-> "list", cause |-> Nil, items |-> <<Pod(1)>>]
  /\ pods = <<Pod(1)>>
  /\ idx = 1
  /\ attempted = << >>
  /\ outcomes = << >>
  /\ ret = [nil |-> FALSE, val |-> << >>]
  /\ err = Nil
  /\ errs = << >>
  /\ fw = "none"
  /\ body = "none"
  /\ stdout = << >>
  /\ stderr = << >>

NextParse ==
  \/ \E p \in VersionStrings : GetIstioVersionsAttempt([err |-> Nil, res |-> p])
  \/ GetIstioVersionsReturn

SpecParse == InitParse /\ [][NextParse]_vars
\* ================================================================ properties
Done(o) == pc = "done" /\ op = o
Listed == resp.kind = "list"
LoopRan == Listed /\ resp.items # << >>
Failed(o) == o.err # Nil
Contributed(o) == o.err = Nil /\ o.res # << >>
Names(ps, n) == [i \in 1..n |-> ps[i].Name]
Contains(s, t) == \E i \in 0..(Len(s) - Len(t)) : SubSeq(s, i + 1, i + Len(t)) = t
Chars(s) == { s[i] : i \in 1..Len(s) }
Min(S) == CHOOSE x \in S : \A y \in S : x <= y
RECURSIVE Ascending(_)
Ascending(S) == IF S = {} THEN << >> ELSE <<Min(S)>> \o Ascending(S \ {Min(S)})

\* C1 (as claimed): AllDiscoveryDo attempts every resolved pod whatever the earlier
\* pods answered, and returns the payload of every pod that answered non-empty.
C1_CollectsAll ==
  (Done("AllDiscoveryDo") /\ LoopRan) =>
     /\ attempted = Names(pods, Len(pods))
     /\ \A i \in 1..Len(outcomes) :
          Contributed(outcomes[i]) =>
             /\ attempted[i] \in DOMAIN ret.val
             /\ ret.val[attempted[i]] = outcomes[i].res

\* C1 (amended): AllDiscoveryDo aborts on the first failing pod: pods are attempted
\* in resolved order up to and including the first failure, which is returned
\* unwrapped with a nil map; only when no pod fails does it return the map of all
\* non-empty payloads with a nil error.
C1_AbortsOnFirstError ==
  (Done("AllDiscoveryDo") /\ LoopRan) =>
     LET n == Len(outcomes) IN
     /\ n >= 1 /\ n <= Len(pods)
     /\ attempted = Names(pods, n)
     /\ \A i \in 1..(n - 1) : ~Failed(outcomes[i])
     /\ IF Failed(outcomes[n])
        THEN ret.nil /\ err = outcomes[n].err
        ELSE /\ n = Len(pods)
             /\ err = Nil
             /\ ~ret.nil
             /\ DOMAIN ret.val = { attempted[i] : i \in { j \in 1..n : Contributed(outcomes[j]) } }
             /\ \A i \in 1..n : Contributed(outcomes[i]) => ret.val[attempted[i]] = outcomes[i].res

\* C1 witness: a payload was collected, a later pod failed, a pod was never tried.
C1_Witness ==
  /\ Done("AllDiscoveryDo")
  /\ Len(outcomes) = 2 /\ Len(pods) = 3
  /\ Contributed(outcomes[1]) /\ Failed(outcomes[2])

\* C2: in GetIstioVersions every pod is attempted once, in resolved order; a failing
\* pod adds one entry to the combined error only, a pod with a non-empty payload one
\* entry to the result only, a pod with an empty payload nothing; the result keeps
\* the resolved order.
C2_ThreeBins ==
  (op = "GetIstioVersions" /\ LoopRan) =>
     LET n == Len(outcomes)
         failing == Ascending({ i \in 1..n : Failed(outcomes[i]) })
         giving == Ascending({ i \in 1..n : Contributed(outcomes[i]) })
     IN /\ attempted = Names(pods, n)
        /\ (pc = "done" => n = Len(pods))
        /\ Len(errs) = Len(failing)
        /\ \A k \in 1..Len(failing) :
             /\ errs[k][2] = pods[failing[k]].Name
             /\ Contains(errs[k], outcomes[failing[k]].err)
        /\ Len(ret.val) = Len(giving)
        /\ \A k \in 1..Len(giving) : ret.val[k].Component = pods[giving[k]].istio

\* C2 witness: the three bins in one call, on a list that is not in name order.
C2_Witness ==
  /\ Done("GetIstioVersions")
  /\ Len(pods) = 3
  /\ pods[1].Name = PodNames[2]
  /\ Contributed(outcomes[1]) /\ Failed(outcomes[2])
  /\ ~Failed(outcomes[3]) /\ outcomes[3].res = << >>
  /\ Len(ret.val) = 1 /\ Len(errs) = 1

C4_ForwarderClosedOnEveryExit ==
  (Done("EnvoyDo") /\ fw # "none") => fw = "closed"

\* C5 (as claimed): GetIstioPods returns an error when the list query succeeds
\* with zero pods.
C5_NeverEmptySuccess ==
  (Done("GetIstioPods") /\ Listed /\ resp.items = << >>) => err # Nil

\* C5 (amended): GetIstioPods returns whatever the list query lists with a nil
\* error, the empty list included; it fails only when the query or its decoding fails.
C5_ListIsReturnedAsIs ==
  Done("GetIstioPods") =>
     /\ (Listed => err = Nil /\ ~ret.nil /\ ret.val = resp.items)
     /\ (~Listed => err # Nil /\ ret.nil)

\* C5 witness: a successful list query that matched no pod.
C5_Witness ==
  Done("GetIstioPods") /\ Listed /\ resp.items = << >> /\ err = Nil

\* C6 (as claimed): with a non-empty revision R the label selector sent is
\* "L,<rev-label>=R" for a non-empty L and "<rev-label>=R" alone for an absent or
\* empty L; with an empty revision the selector map is sent unchanged.
C6_RevisionMerge ==
  (op \in {"GetIstioPods", "AllDiscoveryDo", "GetIstioVersions"}) =>
     LET L == IF "labelSelector" \in DOMAIN paramsIn THEN paramsIn["labelSelector"] ELSE << >>
         term == IstioRev \o <<"=">> \o revision
     IN IF revision = << >>
        THEN query = paramsIn
        ELSE query["labelSelector"] = (IF L = << >> THEN term ELSE L \o <<",">> \o term)

\* C7 (as claimed): GetIstioPods leaves the caller's selector map as it found it.
C7_SelectorNotMutated ==
  Done("GetIstioPods") => params = paramsIn

\* C8: a payload with three or more "-"-separated segments parses to version,
\* gitRevision, buildStatus with version-gitRevision-buildStatus equal to the payload
\* and no "-" inside gitRevision or buildStatus; a payload with fewer segments
\* parses to itself as version with the other two empty; no payload is an error.
C8_VersionParsing ==
  (op = "GetIstioVersions" /\ Len(outcomes) = 1 /\ Contributed(outcomes[1])) =>
     LET p == outcomes[1].res
         dashes == Cardinality({ i \in 1..Len(p) : p[i] = "-" })
     IN /\ err = Nil /\ errs = << >>
        /\ Len(ret.val) = 1
        /\ LET info == ret.val[1].Info IN
           IF dashes >= 2
           THEN /\ info.Version \o <<"-">> \o info.GitRevision \o <<"-">> \o info.BuildStatus = p
                /\ "-" \notin Chars(info.GitRevision)
                /\ "-" \notin Chars(info.BuildStatus)
           ELSE /\ info.Version = p
                /\ info.GitRevision = << >>
                /\ info.BuildStatus = << >>

\* C8 witness: a parsed payload whose version itself holds a "-".
C8_Witness ==
  /\ Done("GetIstioVersions")
  /\ Len(ret.val) = 1
  /\ "-" \in Chars(ret.val[1].Info.Version)
  /\ ret.val[1].Info.GitRevision # << >>
  /\ ret.val[1].Info.BuildStatus # << >>

\* C9: when PodExec's command stream fails the returned error is non-nil and its
\* message holds the captured stderr verbatim if there is any, and stdout and stderr
\* are returned as captured; when the stream succeeds the error is nil.
C9_ExecErrorCarriesStderr ==
  (Done("PodExec") /\ resp.exec.stage = "stream") =>
     LET x == resp.exec IN
     /\ stdout = x.out
     /\ stderr = x.errOut
     /\ (x.err = Nil => err = Nil)
     /\ (x.err # Nil => /\ err # Nil
                        /\ Contains(err, x.err)
                        /\ (x.errOut # << >> => Contains(err, x.errOut)))

\* C9 witness: the stream failed after the command wrote to stderr.
C9_Witness ==
  /\ Done("PodExec")
  /\ resp.exec.stage = "stream"
  /\ resp.exec.err # Nil
  /\ stderr # << >>

\* C10: AllDiscoveryDo and GetIstioVersions answer a successful listing of zero pods
\* with a nil result and an error, issue no per-pod request, and that error differs
\* from every error a failed listing produces.
C10_EmptySetIsAnError ==
  (op \in {"AllDiscoveryDo", "GetIstioVersions"} /\ Listed /\ resp.items = << >>) =>
     /\ pc = "done"
     /\ ret.nil
     /\ err # Nil
     /\ attempted = << >>
     /\ outcomes = << >>
     /\ \A r \in ListResponses : r.kind # "list" => err # GetIstioPodsReturn(r).err

\* C10 witness: GetIstioVersions has returned on a listing of zero pods.
C10_Witness ==
  /\ Done("GetIstioVersions")
  /\ Listed /\ resp.items = << >>
  /\ err # Nil
====
